---- MODULE Spec2Model ----
(***************************************************************************)
(* User State & Visibility subsystem of userprofile-api.                   *)
(*                                                                         *)
(* The row store (activity.users, user_settings, user_interests,           *)
(* user_blocks) and the Redis cache are the state; every service method is *)
(* one action: the repository call it makes, followed by the cache         *)
(* invalidation or cache fill that the service performs.                   *)
(* Datetimes are integers of a bounded clock; Python's None is NoTime for  *)
(* datetimes and NoStr for strings.                                        *)
(***************************************************************************)
EXTENDS Integers, Sequences, FiniteSets, TLC

\* ---------------------------------------------------------------- bounds
MaxTime == 1        \* the clock runs over 0..MaxTime
MaxDeletes == 1     \* soft deletions modelled per account
MaxVerifications == 12  \* verification_count runs over 0..MaxVerifications
MaxNoShows == 6         \* no_show_count runs over 0..MaxNoShows
MaxAttended == 34       \* activities_attended_count runs over 0..MaxAttended
MaxCreated == 1         \* activities_created_count runs over 0..MaxCreated
MaxViews == 2           \* at most this many rows in activity.profile_views

\* ------------------------------------------------------------ input sets
NoTime == 0 - 1
NoStr == "None"
\* a date is its year and its place in the year (month, day); None as a date
NoDate == [year |-> 0 - 1, md |-> 0]

RowUsers == {"u1", "u2"}            \* user ids that have a row in activity.users
UserIds == RowUsers \cup {"u3"}     \* "u3" is an id without a row
Reasons == {"spam", "abuse"}
Names == {"ann", "Ann", "bob", "cat"}
Images == {"i1", "i2"}
Decisions == {"pending", "approved", "rejected"}
ExpiryInputs == {NoTime} \cup (0 .. MaxTime + 1)

\* activity counters: the deltas of a counter update
CreatedDeltas == {0, 1}
AttendedDeltas == {0 - 1, 1, 17}
TrustUsers == {"u1", "u3"}

\* extra photos: nine different images
ImgSeq == <<"i1", "i2", "i3", "i4", "i5", "i6", "i7", "i8", "i9">>
ExtraImages == {"i1", "i2", "i8", "i9"}     \* images of add and remove requests
PhotoUsers == {"u1", "u3"}
StartPhotos == {0, 7}               \* extra photos u1 starts with

\* interest tags: twenty-one different tags, and "T01", which differs from
\* "t01" in case only
TagSeq ==
    <<"t01", "t02", "t03", "t04", "t05", "t06", "t07", "t08", "t09", "t10",
      "t11", "t12", "t13", "t14", "t15", "t16", "t17", "t18", "t19", "t20",
      "t21">>
Weights == {5, 10}                  \* weight 0.5 and 1.0, in tenths
InterestUsers == {"u1", "u3"}
AddTags == {"t01", "T01", "t21"}
RemoveTags == {"t01", "t20", "t21"}

\* the first k tags, each with weight 1.0, as a request body
Batch(k) == [i \in 1 .. k |-> [tag |-> TagSeq[i], weight |-> 10]]

SetBatches ==
    {Batch(0), Batch(1), Batch(19), Batch(20), Batch(21),
     <<[tag |-> "t01", weight |-> 10], [tag |-> "T01", weight |-> 5]>>,
     <<[tag |-> "t02", weight |-> 10], [tag |-> "t02", weight |-> 5]>>}

\* dates of birth: none, 18 years before day 1, 18 years before day 3, day 1
\* of the current year, and next year
DobInputs ==
    {NoDate, [year |-> 2, md |-> 1], [year |-> 2, md |-> 3],
     [year |-> 20, md |-> 1], [year |-> 21, md |-> 1]}

\* the text fields of an update request
TextInputs ==
    {[first_name |-> NoStr, last_name |-> NoStr, profile_description |-> NoStr,
      gender |-> NoStr],
     [first_name |-> "Jo", last_name |-> "Doe", profile_description |-> "hi",
      gender |-> "f"]}

\* UpdateProfileRequest bodies
Bodies ==
    {[first_name |-> x.first_name, last_name |-> x.last_name,
      profile_description |-> x.profile_description, gender |-> x.gender,
      date_of_birth |-> d] : x \in TextInputs, d \in DobInputs}

\* ids of requests that run concurrently
RequestIds == {"r1", "r2", "r3"}

\* ------------------------------------------------------------- variables
VARIABLES
    users,      \* activity.users: user id -> row
    settings,   \* activity.user_settings: user id -> row (partial)
    interests,  \* activity.user_interests: user id -> (tag -> weight)
    blocks,     \* activity.user_blocks: set of <<blocker, blocked>>
    cache,      \* Redis: key -> serialized value (partial)
    redis,      \* enabled: settings.CACHE_ENABLED; up: calls of the Redis
                \* client return (they raise while it is FALSE)
    now,        \* wall clock
    views,      \* activity.profile_views: the rows <<viewer, viewed>> in
                \* insertion order
    inflight,   \* requests that have started and not yet returned:
                \* request id -> what the request holds at its await
    last        \* the last request, what it returned to its caller (outcome,
                \* with the field or resource and the limit an error names),
                \* and (prior) the status the request found

vars == <<users, settings, interests, blocks, cache, redis, now, views, inflight, last>>

\* ------------------------------------------------------ identity strings
\* A username or e-mail is the string "deleted_<t1>_deleted_<t2>_..<orig>":
\* del is the sequence of timestamps of the prefixes, outermost first.
Ident(orig) == [del |-> << >>, orig |-> orig]

\* str.lower(): of the modelled names only "Ann" has an upper-case letter;
\* the "deleted_<timestamp>_" prefix is lower-case already.
LowerName(n) == IF n = "Ann" THEN "ann" ELSE n

Lower(id) == [del |-> id.del, orig |-> LowerName(id.orig)]

\* f"deleted_{timestamp}_{value}"
DeletedPrefix(t, id) == [del |-> <<t>> \o id.del, orig |-> id.orig]

\* ------------------------------------------------------------- the cache
ProfileKey(u) == <<"user_profile", u>>

SettingsKey(u) == <<"user_settings", u>>

InterestsKey(u) == <<"user_interests", u>>

\* json.dumps / json.loads of a cached value
JsonDumps(v) == [json |-> v]

JsonLoads(s) == s.json

\* Redis DEL, and the expiry of keys
RedisDelete(c, keys) == [x \in DOMAIN c \ keys |-> c[x]]

\* CacheManager.get: the deserialized value, or nothing on a miss, with the
\* cache disabled, and when the Redis call raises
CacheGet(c, k) ==
    IF ~redis.enabled THEN {}
    ELSE IF ~redis.up THEN {}
    ELSE IF k \in DOMAIN c THEN {JsonLoads(c[k])} ELSE {}

\* CacheManager.set: the store after the call
CacheSet(c, k, v) ==
    IF ~redis.enabled THEN c
    ELSE IF ~redis.up THEN c
    ELSE [x \in DOMAIN c \cup {k} |-> IF x = k THEN JsonDumps(v) ELSE c[x]]

\* CacheManager.delete(*keys): the store after the call
CacheDelete(c, keys) ==
    IF ~redis.enabled THEN c
    ELSE IF ~redis.up THEN c
    ELSE RedisDelete(c, keys)

InvalidateUserProfile(c, u) == CacheDelete(c, {ProfileKey(u)})

InvalidateAllUserCaches(c, u) ==
    CacheDelete(c, {ProfileKey(u), SettingsKey(u), InterestsKey(u)})

\* --------------------------------------------------------- the row store
\* UserSettingsResponse(**settings.model_dump())
SettingsDump(u) == IF u \in DOMAIN settings THEN {settings[u]} ELSE {}

\* UserProfileResponse(**user_dict): the fields of the response schema.
\* status, ban_expires_at, ban_reason and updated_at are in user_dict but
\* are not fields of UserProfileResponse, so they are dropped.
Snapshot(u) ==
    [user_id |-> u,
     email |-> users[u].email,
     username |-> users[u].username,
     first_name |-> users[u].first_name,
     last_name |-> users[u].last_name,
     profile_description |-> users[u].profile_description,
     date_of_birth |-> users[u].date_of_birth,
     gender |-> users[u].gender,
     subscription_level |-> users[u].subscription_level,
     is_captain |-> users[u].is_captain,
     last_seen_at |-> users[u].last_seen_at,
     main_photo_url |-> users[u].main_photo_url,
     main_photo_moderation_status |-> users[u].main_photo_moderation_status,
     profile_photos_extra |-> users[u].profile_photos_extra,
     verification_count |-> users[u].verification_count,
     no_show_count |-> users[u].no_show_count,
     activities_created_count |-> users[u].activities_created_count,
     activities_attended_count |-> users[u].activities_attended_count,
     interests |-> interests[u],
     settings |-> SettingsDump(u)]

\* a block query that looks for the subject's block of the viewer only
BlockedOneWay(u, v) == <<u, v>> \in blocks

\* the block query of get_by_user_id: a row in either direction
Blocked(u, v) == <<u, v>> \in blocks \/ <<v, u>> \in blocks

\* ProfileRepository.get_by_user_id: the profile, or nothing
GetByUserId(u, v) ==
    IF Blocked(u, v) THEN {}
    ELSE IF u \notin DOMAIN users THEN {}
    ELSE {Snapshot(u)}

\* ---------------------------------------------------------------- Init
InitUser(name, mail) ==
    [email |-> Ident(mail),
     username |-> Ident(name),
     first_name |-> NoStr,
     last_name |-> NoStr,
     profile_description |-> NoStr,
     date_of_birth |-> NoDate,
     gender |-> NoStr,
     subscription_level |-> "free",
     is_captain |-> FALSE,
     last_seen_at |-> NoTime,
     main_photo_url |-> NoStr,
     main_photo_moderation_status |-> "pending",
     status |-> "active",
     ban_expires_at |-> NoTime,
     ban_reason |-> NoStr,
     profile_photos_extra |-> << >>,
     verification_count |-> 0,
     no_show_count |-> 0,
     activities_created_count |-> 0,
     activities_attended_count |-> 0,
     updated_at |-> 0]

NoRequest ==
    [op |-> "none", user |-> NoStr, viewer |-> NoStr, outcome |-> NoStr,
     source |-> NoStr, profile |-> {}, s |-> NoStr, n |-> NoTime,
     prior |-> NoStr, detail |-> NoStr, limit |-> NoTime, batch |-> << >>,
     dirty |-> {}, ghost |-> FALSE, body |-> << >>]

Init ==
    /\ users = [u \in RowUsers |->
                  IF u = "u1" THEN InitUser("ann", "a@x") ELSE InitUser("bob", "b@x")]
    /\ settings = [u \in RowUsers |-> [ghost_mode |-> FALSE]]
    /\ interests = [u \in RowUsers |-> << >>]
    /\ blocks = {}
    /\ cache = << >>
    /\ redis = [enabled |-> TRUE, up |-> TRUE]
    /\ now = 0
    /\ views = << >>
    /\ inflight = << >>
    /\ last = NoRequest

\* what a request finds in the row before it acts
PriorStatus(u) == IF u \in DOMAIN users THEN users[u].status ELSE NoStr

PriorModeration(u) ==
    IF u \in DOMAIN users THEN users[u].main_photo_moderation_status ELSE NoStr

\* ------------------------------------------------------------- the clock
Tick ==
    /\ now < MaxTime
    /\ now' = now + 1
    /\ last' = [NoRequest EXCEPT !.op = "tick"]
    /\ UNCHANGED <<users, settings, interests, blocks, cache, redis, views, inflight>>

\* TTL expiry of a cache key
CacheExpire(k) ==
    /\ k \in DOMAIN cache
    /\ cache' = RedisDelete(cache, {k})
    /\ last' = [NoRequest EXCEPT !.op = "expire"]
    /\ UNCHANGED <<users, settings, interests, blocks, now, redis, views, inflight>>

\* ------------------------------------------------------ the Redis server
\* the Redis server stops answering: every call of the client raises
RedisFail ==
    /\ redis.up
    /\ redis' = [redis EXCEPT !.up = FALSE]
    /\ last' = [NoRequest EXCEPT !.op = "redis_fail"]
    /\ UNCHANGED <<users, settings, interests, blocks, cache, now, views, inflight>>

RedisRecover ==
    /\ ~redis.up
    /\ redis' = [redis EXCEPT !.up = TRUE]
    /\ last' = [NoRequest EXCEPT !.op = "redis_recover"]
    /\ UNCHANGED <<users, settings, interests, blocks, cache, now, views, inflight>>

\* the service is restarted with CACHE_ENABLED = flag
Configure(flag) ==
    /\ redis.enabled # flag
    /\ redis' = [redis EXCEPT !.enabled = flag]
    /\ last' = [NoRequest EXCEPT !.op = "configure"]
    /\ UNCHANGED <<users, settings, interests, blocks, cache, now, views, inflight>>

\* ------------------------------------------------- user-relationship side
\* Block rows are written by the user-relationship subsystem.
CreateBlock(a, b) ==
    /\ a \in RowUsers /\ b \in RowUsers /\ a # b
    /\ <<a, b>> \notin blocks
    /\ blocks' = blocks \cup {<<a, b>>}
    /\ last' = [NoRequest EXCEPT !.op = "create_block", !.user = a, !.viewer = b]
    /\ UNCHANGED <<users, settings, interests, cache, now, redis, views, inflight>>

RemoveBlock(a, b) ==
    /\ <<a, b>> \in blocks
    /\ blocks' = blocks \ {<<a, b>>}
    /\ last' = [NoRequest EXCEPT !.op = "remove_block", !.user = a, !.viewer = b]
    /\ UNCHANGED <<users, settings, interests, cache, now, redis, views, inflight>>

\* ------------------------------------------------------- profile service
\* a cache lookup that is made for every viewer
UseCacheForAnyViewer(u, v) == TRUE

\* get_user_profile looks in the cache only for the user's own profile
\* (use_cache and user_id == requesting_user_id)
UseCache(u, v) == u = v

\* the body of get_user_profile(user_id = u, requesting_user_id = v): what
\* it returns or raises, and the cache after it
ReadProfile(u, v) ==
    LET cached == IF UseCache(u, v) THEN CacheGet(cache, ProfileKey(u)) ELSE {}
        result == GetByUserId(u, v)
    IN  IF cached # {}
        THEN [outcome |-> "ok", source |-> "cache", profile |-> cached, cache |-> cache]
        ELSE IF result = {}
        THEN [outcome |-> "NotFound", source |-> NoStr, profile |-> {}, cache |-> cache]
        ELSE [outcome |-> "ok", source |-> "row", profile |-> result,
              cache |-> IF u = v
                        THEN CacheSet(cache, ProfileKey(u), CHOOSE p \in result : TRUE)
                        ELSE cache]

\* ProfileService.get_user_profile(user_id = u, requesting_user_id = v)
GetUserProfile(u, v) ==
    LET r == ReadProfile(u, v)
        req == [NoRequest EXCEPT !.op = "get_user_profile", !.user = u, !.viewer = v]
    IN  /\ last' = [req EXCEPT !.outcome = r.outcome, !.source = r.source,
                               !.profile = r.profile]
        /\ cache' = r.cache
        /\ UNCHANGED <<users, settings, interests, blocks, now, redis, views, inflight>>

\* PublicUserProfileResponse(...): the fields of the public profile
PublicProfile(p) ==
    [user_id |-> p.user_id,
     username |-> p.username,
     first_name |-> p.first_name,
     last_name |-> p.last_name,
     profile_description |-> p.profile_description,
     main_photo_url |-> p.main_photo_url,
     main_photo_moderation_status |-> p.main_photo_moderation_status,
     profile_photos_extra |-> p.profile_photos_extra,
     gender |-> p.gender,
     verification_count |-> p.verification_count,
     activities_created_count |-> p.activities_created_count,
     activities_attended_count |-> p.activities_attended_count,
     interests |-> p.interests]

\* a view record that is written for self-views too
RecordsViewOfSelf(u, v, ghost) == ~ghost

\* get_public_profile writes a view row: not ghost_mode and
\* user_id != requesting_user_id
RecordsView(u, v, ghost) == ~ghost /\ u # v

\* ProfileService.get_public_profile(user_id = u, requesting_user_id = v,
\* ghost_mode = ghost).  fails: the INSERT into activity.profile_views
\* raises; it also raises when the viewer has no user row (foreign key).
GetPublicProfile(u, v, ghost, fails) ==
    LET r == ReadProfile(u, v)
        attempts == r.outcome = "ok" /\ RecordsView(u, v, ghost)
        raises == fails \/ v \notin DOMAIN users
        req == [NoRequest EXCEPT !.op = "get_public_profile", !.user = u,
                                 !.viewer = v, !.ghost = ghost]
    IN  /\ attempts /\ ~raises => Len(views) < MaxViews
        /\ last' = [req EXCEPT
                       !.outcome = r.outcome, !.source = r.source,
                       !.profile = {PublicProfile(p) : p \in r.profile},
                       !.detail = IF attempts /\ raises
                                  THEN "profile_view_record_failed" ELSE NoStr]
        /\ cache' = r.cache
        /\ views' = IF attempts /\ ~raises THEN Append(views, <<v, u>>) ELSE views
        /\ UNCHANGED <<users, settings, interests, blocks, now, redis, inflight>>

\* ------------------------------------------- settings and interest reads
\* SettingsService.get_settings(user_id = u).  On a miss with a stored row
\* it calls cache.set_user_settings(user_id, settings.model_dump()), whose
\* parameter named settings shadows the configuration object, so reading
\* settings.CACHE_TTL_USER_SETTINGS raises AttributeError before anything
\* is written to the cache.
GetSettings(u) ==
    LET cached == CacheGet(cache, SettingsKey(u))
        req == [NoRequest EXCEPT !.op = "get_settings", !.user = u]
    IN  /\ last' = [req EXCEPT !.outcome =
                        IF cached # {} THEN "ok"
                        ELSE IF SettingsDump(u) = {} THEN "NotFound"
                        ELSE "AttributeError",
                      !.source = IF cached # {} THEN "cache" ELSE NoStr]
        /\ UNCHANGED <<users, settings, interests, blocks, cache, now, redis, views, inflight>>

\* the rows of activity.user_interests of a user
InterestRows(u) == IF u \in DOMAIN interests THEN interests[u] ELSE << >>

\* InterestService.get_interests(user_id = u); an empty cached list is falsy
GetInterests(u) ==
    LET cached == CacheGet(cache, InterestsKey(u))
        hit == cached # {} /\ cached # {<< >>}
        req == [NoRequest EXCEPT !.op = "get_interests", !.user = u]
    IN  /\ last' = [req EXCEPT !.outcome = "ok",
                               !.source = IF hit THEN "cache" ELSE "row"]
        /\ cache' = IF hit THEN cache
                    ELSE CacheSet(cache, InterestsKey(u), InterestRows(u))
        /\ UNCHANGED <<users, settings, interests, blocks, now, redis, views, inflight>>

\* ProfileRepository.delete: the soft-deleted row
DeleteRow(row, t) ==
    [row EXCEPT !.status = "banned",
                !.email = DeletedPrefix(t, row.email),
                !.username = DeletedPrefix(t, row.username),
                !.updated_at = t]

\* ProfileService.delete_account(user_id = u)
DeleteAccount(u) ==
    LET req == [NoRequest EXCEPT !.op = "delete_account", !.user = u,
                                 !.prior = PriorStatus(u)]
    IN  IF u \notin DOMAIN users
        THEN /\ last' = [req EXCEPT !.outcome = "NotFound"]
             /\ UNCHANGED <<users, settings, interests, blocks, cache, now, redis, views, inflight>>
        ELSE /\ Len(users[u].email.del) < MaxDeletes
             /\ users' = [users EXCEPT ![u] = DeleteRow(users[u], now)]
             /\ interests' = [interests EXCEPT ![u] = << >>]
             /\ settings' = [x \in DOMAIN settings \ {u} |-> settings[x]]
             /\ cache' = InvalidateAllUserCaches(cache, u)
             /\ last' = [req EXCEPT !.outcome = "ok"]
             /\ UNCHANGED <<blocks, now, redis, views, inflight>>

\* a uniqueness query that compares the usernames as they are written
UsernameMatchesExact(n) ==
    {x \in DOMAIN users : users[x].username = Ident(n)}

\* the uniqueness query of update_username: rows whose lower-cased username
\* equals the lower-cased new name
UsernameMatches(n) ==
    {x \in DOMAIN users : Lower(users[x].username) = Lower(Ident(n))}

\* ProfileService.update_username(user_id = u, new_username = n)
UpdateUsername(u, n) ==
    LET req == [NoRequest EXCEPT !.op = "update_username", !.user = u, !.s = n]
        matches == UsernameMatches(n)
    IN  IF Cardinality(matches) > 1
        THEN \* scalar_one_or_none raises MultipleResultsFound
             /\ last' = [req EXCEPT !.outcome = "MultipleResultsFound"]
             /\ UNCHANGED <<users, settings, interests, blocks, cache, now, redis, views, inflight>>
        ELSE IF matches # {}
        THEN /\ last' = [req EXCEPT !.outcome = "Duplicate", !.detail = "username"]
             /\ UNCHANGED <<users, settings, interests, blocks, cache, now, redis, views, inflight>>
        ELSE IF u \notin DOMAIN users
        THEN /\ last' = [req EXCEPT !.outcome = "NotFound"]
             /\ UNCHANGED <<users, settings, interests, blocks, cache, now, redis, views, inflight>>
        ELSE /\ users' = [users EXCEPT ![u].username = Ident(n), ![u].updated_at = now]
             /\ cache' = InvalidateUserProfile(cache, u)
             /\ last' = [req EXCEPT !.outcome = "ok"]
             /\ UNCHANGED <<settings, interests, blocks, now, redis, views, inflight>>

\* ---------------------------------------------------- moderation service
\* a validator that lets an expiry equal to now through
ValidateExpiryAllowsNow(e, t) == IF e # NoTime THEN ~(e < t) ELSE TRUE

\* BanUserRequest.validate_expiry: TRUE when the request is accepted
ValidateExpiry(e, t) == IF e # NoTime THEN ~(e <= t) ELSE TRUE

\* a ban that leaves ban_expires_at alone when no expiry is given
BanRowKeepsExpiry(row, reason, e, t) ==
    [row EXCEPT !.status = IF e # NoTime THEN "temporary_ban" ELSE "banned",
                !.ban_expires_at = IF e # NoTime THEN e ELSE row.ban_expires_at,
                !.ban_reason = reason,
                !.updated_at = t]

\* ModerationRepository.ban_user: the banned row
BanRow(row, reason, e, t) ==
    [row EXCEPT !.status = IF e # NoTime THEN "temporary_ban" ELSE "banned",
                !.ban_expires_at = IF e # NoTime THEN e ELSE NoTime,
                !.ban_reason = reason,
                !.updated_at = t]

\* POST /admin/users/{user_id}/ban: request validation, then
\* ModerationService.ban_user(user_id = u, reason, expires_at = e)
BanUser(u, reason, e) ==
    LET req == [NoRequest EXCEPT !.op = "ban_user", !.user = u, !.s = reason, !.n = e,
                                 !.prior = PriorStatus(u)]
    IN  IF ~ValidateExpiry(e, now)
        THEN /\ last' = [req EXCEPT !.outcome = "ValidationFailed"]
             /\ UNCHANGED <<users, settings, interests, blocks, cache, now, redis, views, inflight>>
        ELSE /\ users' = IF u \in DOMAIN users
                         THEN [users EXCEPT ![u] = BanRow(users[u], reason, e, now)]
                         ELSE users
             /\ cache' = InvalidateAllUserCaches(cache, u)
             /\ last' = [req EXCEPT !.outcome = IF u \in DOMAIN users THEN "ok" ELSE "false"]
             /\ UNCHANGED <<settings, interests, blocks, now, redis, views, inflight>>

\* an unban that forgets to clear ban_reason
UnbanRowKeepsReason(row, t) ==
    [row EXCEPT !.status = "active",
                !.ban_expires_at = NoTime,
                !.updated_at = t]

\* ModerationRepository.unban_user: the unbanned row
UnbanRow(row, t) ==
    [row EXCEPT !.status = "active",
                !.ban_expires_at = NoTime,
                !.ban_reason = NoStr,
                !.updated_at = t]

\* ModerationService.unban_user(user_id = u)
UnbanUser(u) ==
    LET req == [NoRequest EXCEPT !.op = "unban_user", !.user = u,
                                 !.prior = PriorStatus(u)]
    IN  /\ users' = IF u \in DOMAIN users
                    THEN [users EXCEPT ![u] = UnbanRow(users[u], now)]
                    ELSE users
        /\ cache' = InvalidateAllUserCaches(cache, u)
        /\ last' = [req EXCEPT !.outcome = IF u \in DOMAIN users THEN "ok" ELSE "false"]
        /\ UNCHANGED <<settings, interests, blocks, now, redis, views, inflight>>

\* ModeratePhotoRequest.validate_status: TRUE when the request is accepted
ValidateStatus(d) == d \in {"approved", "rejected"}

\* a moderation that only acts on a pending photo
ModerateRowPendingOnly(row, d, t) ==
    IF row.main_photo_moderation_status = "pending"
    THEN [row EXCEPT !.main_photo_moderation_status = d, !.updated_at = t]
    ELSE row

\* ModerationRepository.moderate_photo: the moderated row
ModerateRow(row, d, t) ==
    [row EXCEPT !.main_photo_moderation_status = d, !.updated_at = t]

\* POST /admin/users/{user_id}/photo-moderation: request validation, then
\* ModerationService.moderate_photo(user_id = u, status = d)
ModeratePhoto(u, d) ==
    LET req == [NoRequest EXCEPT !.op = "moderate_photo", !.user = u, !.s = d,
                                 !.prior = PriorModeration(u)]
    IN  IF ~ValidateStatus(d)
        THEN /\ last' = [req EXCEPT !.outcome = "ValidationFailed"]
             /\ UNCHANGED <<users, settings, interests, blocks, cache, now, redis, views, inflight>>
        ELSE /\ users' = IF u \in DOMAIN users
                         THEN [users EXCEPT ![u] = ModerateRow(users[u], d, now)]
                         ELSE users
             /\ cache' = InvalidateUserProfile(cache, u)
             /\ last' = [req EXCEPT !.outcome = IF u \in DOMAIN users THEN "ok" ELSE "false"]
             /\ UNCHANGED <<settings, interests, blocks, now, redis, views, inflight>>

\* ----------------------------------------------------------- photo service
\* PhotoService._construct_photo_url
ConstructPhotoUrl(u, img) == "cdn/users/" \o u \o "/" \o img

\* a photo change that keeps the moderation status of the old photo
SetMainPhotoRowKeepsStatus(row, url, t) ==
    [row EXCEPT !.main_photo_url = url, !.updated_at = t]

\* PhotoRepository.set_main_photo: the row with the new main photo
SetMainPhotoRow(row, url, t) ==
    [row EXCEPT !.main_photo_url = url,
                !.main_photo_moderation_status = "pending",
                !.updated_at = t]

\* PhotoService.set_main_photo(user_id = u, image_id = img)
SetMainPhoto(u, img) ==
    LET req == [NoRequest EXCEPT !.op = "set_main_photo", !.user = u, !.s = img,
                                 !.prior = PriorModeration(u)]
    IN  IF u \notin DOMAIN users
        THEN /\ last' = [req EXCEPT !.outcome = "NotFound"]
             /\ UNCHANGED <<users, settings, interests, blocks, cache, now, redis, views, inflight>>
        ELSE /\ users' = [users EXCEPT
                            ![u] = SetMainPhotoRow(users[u], ConstructPhotoUrl(u, img), now)]
             /\ cache' = InvalidateUserProfile(cache, u)
             /\ last' = [req EXCEPT !.outcome = "ok"]
             /\ UNCHANGED <<settings, interests, blocks, now, redis, views, inflight>>

\* a limit check that lets a ninth photo in
AtPhotoLimitOffByOne(count) == count > 8

\* the limit check of add_profile_photo
AtPhotoLimit(count) == count >= 8

\* PhotoRepository.add_profile_photo: the message it returns
AddProfilePhotoMessage(u, url) ==
    IF u \notin DOMAIN users THEN "User not found"
    ELSE IF AtPhotoLimit(Len(users[u].profile_photos_extra))
    THEN "Maximum 8 extra photos allowed"
    ELSE IF \A i \in DOMAIN users[u].profile_photos_extra :
                users[u].profile_photos_extra[i] # url
    THEN "Photo added"
    ELSE "Photo already exists"

\* word in message, for the messages of add_profile_photo: "User not found",
\* "Maximum 8 extra photos allowed", "Photo added", "Photo already exists"
Contains(message, word) ==
    <<message, word>> \in {<<"Maximum 8 extra photos allowed", "Maximum">>,
                           <<"Photo already exists", "already exists">>}

\* PhotoService.add_profile_photo: the error raised for an unsuccessful
\* result; the message is searched for "Maximum", then for "already added"
AddProfilePhotoError(message) ==
    IF Contains(message, "Maximum") THEN "LimitExceeded"
    ELSE IF Contains(message, "already added") THEN "Duplicate"
    ELSE "NotFound"

\* PhotoService.add_profile_photo(user_id = u, image_id = img)
AddProfilePhoto(u, img) ==
    LET url == ConstructPhotoUrl(u, img)
        message == AddProfilePhotoMessage(u, url)
        req == [NoRequest EXCEPT !.op = "add_profile_photo", !.user = u, !.s = img]
    IN  IF message = "Photo added"
        THEN /\ users' = [users EXCEPT
                            ![u].profile_photos_extra = Append(@, url),
                            ![u].updated_at = now]
             /\ cache' = InvalidateUserProfile(cache, u)
             /\ last' = [req EXCEPT !.outcome = "ok"]
             /\ UNCHANGED <<settings, interests, blocks, now, redis, views, inflight>>
        ELSE /\ last' = [req EXCEPT
                            !.outcome = AddProfilePhotoError(message),
                            !.detail = IF AddProfilePhotoError(message) = "LimitExceeded"
                                       THEN "photos" ELSE NoStr,
                            !.limit = IF AddProfilePhotoError(message) = "LimitExceeded"
                                      THEN 8 ELSE NoTime]
             /\ UNCHANGED <<users, settings, interests, blocks, cache, now, redis, views, inflight>>

\* [p for p in photos if p != photo_url]
WithoutUrl(photos, url) == SelectSeq(photos, LAMBDA p : p # url)

\* PhotoService.remove_profile_photo(user_id = u, image_id = img)
RemoveProfilePhoto(u, img) ==
    LET url == ConstructPhotoUrl(u, img)
        req == [NoRequest EXCEPT !.op = "remove_profile_photo", !.user = u, !.s = img]
        found == /\ u \in DOMAIN users
                 /\ \E i \in DOMAIN users[u].profile_photos_extra :
                        users[u].profile_photos_extra[i] = url
    IN  /\ users' = IF found
                    THEN [users EXCEPT
                            ![u].profile_photos_extra = WithoutUrl(@, url),
                            ![u].updated_at = now]
                    ELSE users
        /\ cache' = InvalidateUserProfile(cache, u)
        /\ last' = [req EXCEPT !.outcome = IF found THEN "ok" ELSE "false"]
        /\ UNCHANGED <<settings, interests, blocks, now, redis, views, inflight>>

\* ---------------------------------------------------- verification service
Min(a, b) == IF a < b THEN a ELSE b

Max(a, b) == IF a > b THEN a ELSE b

\* round(x, 1): x in hundredths, the result in tenths, ties to the even tenth
Round1(h) ==
    LET q == h \div 10
        r == h % 10
    IN  IF r > 5 \/ (r = 5 /\ q % 2 = 1) THEN q + 1 ELSE q

\* a trust score that is not raised to 0
TrustScoreNoFloor(v, n, a) ==
    Round1(Min(10000, (v * 1000) - (n * 2000) + (a * 50)))

\* the trust score of get_verification_metrics, in tenths;
\* min, max and the weighted sum are computed in hundredths
TrustScore(v, n, a) ==
    Round1(Max(0, Min(10000, (v * 1000) - (n * 2000) + (a * 50))))

\* VerificationService.get_verification_metrics(user_id = u)
GetVerificationMetrics(u) ==
    LET req == [NoRequest EXCEPT !.op = "get_verification_metrics", !.user = u]
    IN  /\ last' = IF u \notin DOMAIN users
                   THEN [req EXCEPT !.outcome = "NotFound"]
                   ELSE [req EXCEPT !.outcome = "ok",
                                    !.n = TrustScore(users[u].verification_count,
                                                     users[u].no_show_count,
                                                     users[u].activities_attended_count)]
        /\ UNCHANGED <<users, settings, interests, blocks, cache, now, redis, views, inflight>>

\* VerificationService.increment_verification(user_id = u).  For an id
\* without a row the repository returns {"success": False}, which is truthy,
\* so the service goes on and returns new_count = 0.
IncrementVerification(u) ==
    LET req == [NoRequest EXCEPT !.op = "increment_verification", !.user = u,
                                 !.outcome = "ok"]
    IN  IF u \notin DOMAIN users
        THEN /\ last' = [req EXCEPT !.n = 0]
             /\ cache' = InvalidateUserProfile(cache, u)
             /\ UNCHANGED <<users, settings, interests, blocks, now, redis, views, inflight>>
        ELSE /\ users[u].verification_count < MaxVerifications
             /\ users' = [users EXCEPT ![u].verification_count = @ + 1,
                                       ![u].updated_at = now]
             /\ cache' = InvalidateUserProfile(cache, u)
             /\ last' = [req EXCEPT !.n = users[u].verification_count + 1]
             /\ UNCHANGED <<settings, interests, blocks, now, redis, views, inflight>>

\* a threshold test that warns from the sixth no-show on
NoShowWarnsAbove(count) == count > 5

\* the threshold test of increment_no_show
NoShowWarns(count) == count >= 5

\* the warning of increment_no_show for a new count
NoShowWarning(count) ==
    IF NoShowWarns(count)
    THEN "User now has {count} no-shows. Threshold for automatic ban is 5."
    ELSE ""

\* VerificationService.increment_no_show(user_id = u); an id without a row
\* gets count = 0 as in increment_verification
IncrementNoShow(u) ==
    LET req == [NoRequest EXCEPT !.op = "increment_no_show", !.user = u,
                                 !.outcome = "ok", !.prior = PriorStatus(u)]
    IN  IF u \notin DOMAIN users
        THEN /\ last' = [req EXCEPT !.n = 0, !.detail = NoShowWarning(0)]
             /\ cache' = InvalidateUserProfile(cache, u)
             /\ UNCHANGED <<users, settings, interests, blocks, now, redis, views, inflight>>
        ELSE /\ users[u].no_show_count < MaxNoShows
             /\ users' = [users EXCEPT ![u].no_show_count = @ + 1,
                                       ![u].updated_at = now]
             /\ cache' = InvalidateUserProfile(cache, u)
             /\ last' = [req EXCEPT !.n = users[u].no_show_count + 1,
                                    !.detail = NoShowWarning(users[u].no_show_count + 1)]
             /\ UNCHANGED <<settings, interests, blocks, now, redis, views, inflight>>

\* VerificationService.update_activity_counters(user_id = u, created_delta =
\* dc, attended_delta = da).  The service reads new_created_count and
\* new_attended_count, which the repository's result does not have, so it
\* returns 0 for both.
UpdateActivityCounters(u, dc, da) ==
    LET req == [NoRequest EXCEPT !.op = "update_activity_counters", !.user = u,
                                 !.outcome = "ok", !.n = 0]
    IN  IF u \notin DOMAIN users
        THEN /\ last' = req
             /\ cache' = InvalidateUserProfile(cache, u)
             /\ UNCHANGED <<users, settings, interests, blocks, now, redis, views, inflight>>
        ELSE /\ users[u].activities_created_count + dc <= MaxCreated
             /\ users[u].activities_attended_count + da <= MaxAttended
             /\ users' = [users EXCEPT
                            ![u].activities_created_count = Max(0, @ + dc),
                            ![u].activities_attended_count = Max(0, @ + da),
                            ![u].updated_at = now]
             /\ cache' = InvalidateUserProfile(cache, u)
             /\ last' = req
             /\ UNCHANGED <<settings, interests, blocks, now, redis, views, inflight>>

\* -------------------------------------------------------- interest service
\* str.lower() of a tag
LowerTag(t) == IF t = "T01" THEN "t01" ELSE t

\* the tags of a request body
BatchTags(b) == {b[i].tag : i \in DOMAIN b}

\* a uniqueness validator that compares the tags as they are written
ValidateUniqueTagsExact(b) == Cardinality(BatchTags(b)) = Len(b)

\* SetInterestsRequest.validate_unique_tags: TRUE when the body is accepted
ValidateUniqueTags(b) ==
    Cardinality({LowerTag(b[i].tag) : i \in DOMAIN b}) = Len(b)

\* SetInterestsRequest.interests: Field(max_items=20)
ValidateMaxItems(b) == Len(b) <= 20

\* the user_interests rows that add_all inserts for a request body
BatchRows(b) ==
    IF Len(b) = 0 THEN << >>
    ELSE [t \in BatchTags(b) |-> b[CHOOSE i \in DOMAIN b : b[i].tag = t].weight]

\* the rows of a user without the row of one tag
RowsWithout(rows, tag) ==
    IF DOMAIN rows \ {tag} = {} THEN << >>
    ELSE [t \in DOMAIN rows \ {tag} |-> rows[t]]

\* the rows of a user with the row of one tag inserted or its weight updated
RowsWith(rows, tag, w) ==
    [t \in DOMAIN rows \cup {tag} |-> IF t = tag THEN w ELSE rows[t]]

\* cache.invalidate_user_interests, then cache.invalidate_user_profile
InvalidateInterestsAndProfile(c, u) ==
    CacheDelete(CacheDelete(c, {InterestsKey(u)}), {ProfileKey(u)})

\* PUT /users/me/interests: request validation, then
\* InterestService.set_interests(user_id = u, interests = b)
SetInterests(u, b) ==
    LET req == [NoRequest EXCEPT !.op = "set_interests", !.user = u, !.batch = b]
    IN  IF ~(ValidateMaxItems(b) /\ ValidateUniqueTags(b))
        THEN /\ last' = [req EXCEPT !.outcome = "ValidationFailed"]
             /\ UNCHANGED <<users, settings, interests, blocks, cache, now, redis, views, inflight>>
        ELSE IF Len(b) > 20 \/ (u \notin DOMAIN users /\ Len(b) > 0)
        THEN \* success = False: over the limit, or the insert broke the
             \* foreign key to activity.users and was rolled back
             /\ last' = [req EXCEPT !.outcome = "LimitExceeded",
                                    !.detail = "interests", !.limit = 20]
             /\ UNCHANGED <<users, settings, interests, blocks, cache, now, redis, views, inflight>>
        ELSE /\ interests' = IF u \in DOMAIN interests
                             THEN [interests EXCEPT ![u] = BatchRows(b)]
                             ELSE interests
             /\ cache' = InvalidateInterestsAndProfile(cache, u)
             /\ last' = [req EXCEPT !.outcome = "ok", !.n = Len(b)]
             /\ UNCHANGED <<users, settings, blocks, now, redis, views, inflight>>

\* a limit check that lets a twenty-first tag in
AtInterestLimitOffByOne(count) == count > 20

\* the limit check of add_interest
AtInterestLimit(count) == count >= 20

\* POST /users/me/interests, InterestService.add_interest(user_id = u, tag, weight = w)
AddInterest(u, tag, w) ==
    LET req == [NoRequest EXCEPT !.op = "add_interest", !.user = u, !.s = tag, !.n = w]
        rows == InterestRows(u)
    IN  IF AtInterestLimit(Cardinality(DOMAIN rows))
        THEN /\ last' = [req EXCEPT !.outcome = "LimitExceeded",
                                    !.detail = "interests", !.limit = 20]
             /\ UNCHANGED <<users, settings, interests, blocks, cache, now, redis, views, inflight>>
        ELSE IF u \notin DOMAIN users
        THEN \* the insert breaks the foreign key to activity.users
             /\ last' = [req EXCEPT !.outcome = "IntegrityError"]
             /\ UNCHANGED <<users, settings, interests, blocks, cache, now, redis, views, inflight>>
        ELSE /\ interests' = [interests EXCEPT ![u] = RowsWith(rows, tag, w)]
             /\ cache' = InvalidateInterestsAndProfile(cache, u)
             /\ last' = [req EXCEPT !.outcome = "ok",
                                    !.detail = IF tag \in DOMAIN rows
                                               THEN "Interest updated"
                                               ELSE "Interest added"]
             /\ UNCHANGED <<users, settings, blocks, now, redis, views, inflight>>

\* DELETE /users/me/interests/{tag}, InterestService.remove_interest(user_id = u, tag)
RemoveInterest(u, tag) ==
    LET req == [NoRequest EXCEPT !.op = "remove_interest", !.user = u, !.s = tag]
        rows == InterestRows(u)
    IN  /\ interests' = IF tag \in DOMAIN rows
                        THEN [interests EXCEPT ![u] = RowsWithout(rows, tag)]
                        ELSE interests
        /\ cache' = InvalidateInterestsAndProfile(cache, u)
        /\ last' = [req EXCEPT !.outcome = IF tag \in DOMAIN rows THEN "ok" ELSE "false"]
        /\ UNCHANGED <<users, settings, blocks, now, redis, views, inflight>>

\* ------------------------------------------------------- profile update
\* date.today() at clock t
Today(t) == [year |-> 20, md |-> 1 + t]

\* today.year - v.year - ((today.month, today.day) < (v.month, v.day))
Age(today, v) == today.year - v.year - (IF today.md < v.md THEN 1 ELSE 0)

\* v >= today and v > today on dates
DateGeq(v, today) == v.year > today.year \/ (v.year = today.year /\ v.md >= today.md)

DateGreater(v, today) == v.year > today.year \/ (v.year = today.year /\ v.md > today.md)

\* a request validation that accepts every date of birth
ValidateAgeAcceptsAll(v, today) == TRUE

\* UpdateProfileRequest.validate_age: TRUE when the request is accepted
ValidateAge(v, today) ==
    IF v = NoDate THEN TRUE
    ELSE IF Age(today, v) < 18 THEN FALSE
    ELSE IF DateGeq(v, today) THEN FALSE
    ELSE TRUE

\* ProfileRepository.update: the attributes it assigns to the loaded User
\* object before it looks at the date of birth
AssignedBeforeDob(body) ==
    {f \in {"first_name", "last_name", "profile_description"} : body[f] # NoStr}

\* ProfileRepository.update: it returns None because of the date of birth
UpdateRejectsDob(body, today) ==
    /\ body.date_of_birth # NoDate
    /\ \/ Age(today, body.date_of_birth) < 18
       \/ DateGreater(body.date_of_birth, today)

\* ProfileRepository.update: the committed row
UpdateRow(row, body, t) ==
    [row EXCEPT
       !.first_name = IF body.first_name # NoStr THEN body.first_name ELSE @,
       !.last_name = IF body.last_name # NoStr THEN body.last_name ELSE @,
       !.profile_description =
           IF body.profile_description # NoStr THEN body.profile_description ELSE @,
       !.date_of_birth = IF body.date_of_birth # NoDate THEN body.date_of_birth ELSE @,
       !.gender = IF body.gender # NoStr THEN body.gender ELSE @,
       !.updated_at = t]

\* PATCH /users/me: validation of the request body, then
\* ProfileService.update_profile(user_id = u, update_data = body)
UpdateMyProfile(u, body) ==
    LET req == [NoRequest EXCEPT !.op = "update_profile", !.user = u, !.body = body]
    IN  IF ~ValidateAge(body.date_of_birth, Today(now))
        THEN /\ last' = [req EXCEPT !.outcome = "ValidationFailed",
                                    !.detail = "date_of_birth"]
             /\ UNCHANGED <<users, settings, interests, blocks, cache, now, redis, views, inflight>>
        ELSE IF u \notin DOMAIN users
        THEN /\ last' = [req EXCEPT !.outcome = "NotFound"]
             /\ UNCHANGED <<users, settings, interests, blocks, cache, now, redis, views, inflight>>
        ELSE IF UpdateRejectsDob(body, Today(now))
        THEN \* the session with the assigned attributes is never committed
             /\ last' = [req EXCEPT !.outcome = "NotFound",
                                    !.dirty = AssignedBeforeDob(body)]
             /\ UNCHANGED <<users, settings, interests, blocks, cache, now, redis, views, inflight>>
        ELSE /\ users' = [users EXCEPT ![u] = UpdateRow(users[u], body, now)]
             /\ cache' = InvalidateUserProfile(cache, u)
             /\ last' = [req EXCEPT !.outcome = "ok"]
             /\ UNCHANGED <<settings, interests, blocks, now, redis, views, inflight>>

\* ------------------------------------------- last seen, subscription, settings
\* SearchService.update_last_seen(user_id = u): the repository sets
\* last_seen_at and commits; the service touches no cache
UpdateLastSeen(u) ==
    LET req == [NoRequest EXCEPT !.op = "update_last_seen", !.user = u]
    IN  IF u \notin DOMAIN users
        THEN /\ last' = [req EXCEPT !.outcome = "false"]
             /\ UNCHANGED <<users, settings, interests, blocks, cache, now, redis, views, inflight>>
        ELSE /\ users' = [users EXCEPT ![u].last_seen_at = now]
             /\ last' = [req EXCEPT !.outcome = "ok"]
             /\ UNCHANGED <<settings, interests, blocks, cache, now, redis, views, inflight>>

\* SubscriptionService.update_subscription(user_id = u, subscription_level)
UpdateSubscription(u, level) ==
    LET req == [NoRequest EXCEPT !.op = "update_subscription", !.user = u, !.s = level]
    IN  IF u \notin DOMAIN users
        THEN /\ last' = [req EXCEPT !.outcome = "NotFound"]
             /\ UNCHANGED <<users, settings, interests, blocks, cache, now, redis, views, inflight>>
        ELSE /\ users' = [users EXCEPT ![u].subscription_level = level,
                                       ![u].updated_at = now]
             /\ cache' = InvalidateAllUserCaches(cache, u)
             /\ last' = [req EXCEPT !.outcome = "ok"]
             /\ UNCHANGED <<settings, interests, blocks, now, redis, views, inflight>>

\* SubscriptionService.set_captain_status(user_id = u, is_captain = flag)
SetCaptainStatus(u, flag) ==
    LET req == [NoRequest EXCEPT !.op = "set_captain_status", !.user = u]
    IN  IF u \notin DOMAIN users
        THEN /\ last' = [req EXCEPT !.outcome = "NotFound"]
             /\ UNCHANGED <<users, settings, interests, blocks, cache, now, redis, views, inflight>>
        ELSE /\ users' = [users EXCEPT ![u].is_captain = flag, ![u].updated_at = now]
             /\ cache' = InvalidateAllUserCaches(cache, u)
             /\ last' = [req EXCEPT !.outcome = "ok"]
             /\ UNCHANGED <<settings, interests, blocks, now, redis, views, inflight>>

\* SettingsRepository.update: the table after the call; a missing row is
\* created, and the commit fails for an id without a user row (foreign key)
SettingsUpdate(u, ghost) ==
    IF u \notin DOMAIN users THEN settings
    ELSE [x \in DOMAIN settings \cup {u} |->
            IF x = u THEN [ghost_mode |-> ghost] ELSE settings[x]]

\* SettingsService.update_settings(user_id = u, ghost_mode = ghost): update,
\* invalidation of the settings and profile keys, then get_settings(u), which
\* raises in set_user_settings when it finds the row
UpdateSettings(u, ghost) ==
    LET req == [NoRequest EXCEPT !.op = "update_settings", !.user = u, !.ghost = ghost]
    IN  /\ settings' = SettingsUpdate(u, ghost)
        /\ cache' = CacheDelete(CacheDelete(cache, {SettingsKey(u)}), {ProfileKey(u)})
        /\ last' = [req EXCEPT !.outcome =
                        IF CacheGet(cache', SettingsKey(u)) # {} THEN "ok"
                        ELSE IF u \notin DOMAIN settings' THEN "NotFound"
                        ELSE "AttributeError",
                      !.source = IF CacheGet(cache', SettingsKey(u)) # {}
                                 THEN "cache" ELSE NoStr]
        /\ UNCHANGED <<users, interests, blocks, now, redis, views, inflight>>

\* ------------------------------------------- requests between their awaits
\* A request runs from one await to the next without interruption; between
\* two awaits other requests run.  inflight holds what a suspended request
\* has in its local variables.
Suspend(r, locals) ==
    [x \in DOMAIN inflight \cup {r} |-> IF x = r THEN locals ELSE inflight[x]]

Return(r) == [x \in DOMAIN inflight \ {r} |-> inflight[x]]

\* get_user_profile(u, u) up to the result of cache.get_user_profile: a hit
\* returns at once, a miss goes on to the row store
BeginRead(r, u) ==
    LET cached == CacheGet(cache, ProfileKey(u))
        req == [NoRequest EXCEPT !.op = "get_user_profile", !.user = u, !.viewer = u]
    IN  /\ r \notin DOMAIN inflight
        /\ IF cached # {}
           THEN /\ last' = [req EXCEPT !.outcome = "ok", !.source = "cache",
                                       !.profile = cached]
                /\ inflight' = inflight
           ELSE /\ last' = [NoRequest EXCEPT !.op = "await"]
                /\ inflight' = Suspend(r, [op |-> "get_user_profile", user |-> u,
                                           pc |-> "fetch", profile |-> {},
                                           outcome |-> NoStr, keys |-> {}])
        /\ UNCHANGED <<users, settings, interests, blocks, cache, now, redis, views>>

\* get_user_profile from the result of db.fetch_one to the next await
FetchRow(r) ==
    /\ r \in DOMAIN inflight
    /\ inflight[r].pc = "fetch"
    /\ LET u == inflight[r].user
           result == GetByUserId(u, u)
           req == [NoRequest EXCEPT !.op = "get_user_profile", !.user = u, !.viewer = u]
       IN  IF result = {}
           THEN /\ last' = [req EXCEPT !.outcome = "NotFound"]
                /\ inflight' = Return(r)
           ELSE /\ last' = [NoRequest EXCEPT !.op = "await"]
                /\ inflight' = Suspend(r, [inflight[r] EXCEPT !.pc = "fill",
                                                              !.profile = result])
    /\ UNCHANGED <<users, settings, interests, blocks, cache, now, redis, views>>

\* get_user_profile: cache.set_user_profile(user_id, profile.dict()), return
FillCache(r) ==
    /\ r \in DOMAIN inflight
    /\ inflight[r].pc = "fill"
    /\ LET u == inflight[r].user
           req == [NoRequest EXCEPT !.op = "get_user_profile", !.user = u, !.viewer = u]
       IN  /\ cache' = CacheSet(cache, ProfileKey(u), CHOOSE p \in inflight[r].profile : TRUE)
           /\ last' = [req EXCEPT !.outcome = "ok", !.source = "row",
                                  !.profile = inflight[r].profile]
    /\ inflight' = Return(r)
    /\ UNCHANGED <<users, settings, interests, blocks, now, redis, views>>

\* set_main_photo(u, img) up to the return of the row store: the row is
\* committed; a missing user raises NotFound
CommitMainPhoto(r, u, img) ==
    LET req == [NoRequest EXCEPT !.op = "set_main_photo", !.user = u, !.s = img,
                                 !.prior = PriorModeration(u)]
    IN  /\ r \notin DOMAIN inflight
        /\ IF u \notin DOMAIN users
           THEN /\ last' = [req EXCEPT !.outcome = "NotFound"]
                /\ UNCHANGED <<users, inflight>>
           ELSE /\ users' = [users EXCEPT
                               ![u] = SetMainPhotoRow(users[u], ConstructPhotoUrl(u, img), now)]
                /\ last' = [NoRequest EXCEPT !.op = "await"]
                /\ inflight' = Suspend(r, [op |-> "set_main_photo", user |-> u,
                                           pc |-> "invalidate", profile |-> {},
                                           outcome |-> "ok",
                                           keys |-> {ProfileKey(u)}])
        /\ UNCHANGED <<settings, interests, blocks, cache, now, redis, views>>

\* ban_user(u, reason, None) up to the return of moderation_repo.ban_user
CommitBan(r, u, reason) ==
    /\ r \notin DOMAIN inflight
    /\ users' = IF u \in DOMAIN users
                THEN [users EXCEPT ![u] = BanRow(users[u], reason, NoTime, now)]
                ELSE users
    /\ last' = [NoRequest EXCEPT !.op = "await"]
    /\ inflight' = Suspend(r, [op |-> "ban_user", user |-> u,
                               pc |-> "invalidate", profile |-> {},
                               outcome |-> IF u \in DOMAIN users THEN "ok" ELSE "false",
                               keys |-> {ProfileKey(u), SettingsKey(u), InterestsKey(u)}])
    /\ UNCHANGED <<settings, interests, blocks, cache, now, redis, views>>

\* a service that reports an error when the cache delete failed
ReturnedUnlessDeleteFailed(result, failed) == IF failed THEN "CacheError" ELSE result

\* what the service returns after the invalidation: the result of the row
\* store; the count that CacheManager.delete returns is not looked at
Returned(result, failed) == result

\* the invalidation of a mutation and its return
Invalidate(r) ==
    /\ r \in DOMAIN inflight
    /\ inflight[r].pc = "invalidate"
    /\ cache' = CacheDelete(cache, inflight[r].keys)
    /\ last' = [NoRequest EXCEPT
                  !.op = inflight[r].op, !.user = inflight[r].user,
                  !.outcome = Returned(inflight[r].outcome, redis.enabled /\ ~redis.up)]
    /\ inflight' = Return(r)
    /\ UNCHANGED <<users, settings, interests, blocks, now, redis, views>>

\* update_username(u, n) up to the commit: the uniqueness query and the
\* query for the user's row
CheckUsername(r, u, n) ==
    LET req == [NoRequest EXCEPT !.op = "update_username", !.user = u, !.s = n]
        matches == UsernameMatches(n)
    IN  /\ r \notin DOMAIN inflight
        /\ IF Cardinality(matches) > 1
           THEN /\ last' = [req EXCEPT !.outcome = "MultipleResultsFound"]
                /\ inflight' = inflight
           ELSE IF matches # {}
           THEN /\ last' = [req EXCEPT !.outcome = "Duplicate", !.detail = "username"]
                /\ inflight' = inflight
           ELSE IF u \notin DOMAIN users
           THEN /\ last' = [req EXCEPT !.outcome = "NotFound"]
                /\ inflight' = inflight
           ELSE /\ last' = [NoRequest EXCEPT !.op = "await"]
                /\ inflight' = Suspend(r, [op |-> "update_username", user |-> u,
                                           pc |-> "commit", profile |-> {},
                                           outcome |-> NoStr, keys |-> {},
                                           s |-> n])
        /\ UNCHANGED <<users, settings, interests, blocks, cache, now, redis, views>>

\* the unique constraint of users.username (Field(unique=True)) compares the
\* stored strings as they are written
UniqueViolation(u, n) ==
    \E x \in DOMAIN users \ {u} : users[x].username = Ident(n)

\* update_username: user.username = new_username; session.commit()
CommitUsername(r) ==
    /\ r \in DOMAIN inflight
    /\ inflight[r].pc = "commit"
    /\ LET u == inflight[r].user
           n == inflight[r].s
           req == [NoRequest EXCEPT !.op = "update_username", !.user = u, !.s = n]
       IN  IF UniqueViolation(u, n)
           THEN /\ last' = [req EXCEPT !.outcome = "IntegrityError"]
                /\ inflight' = Return(r)
                /\ users' = users
           ELSE /\ users' = [users EXCEPT ![u].username = Ident(n),
                                          ![u].updated_at = now]
                /\ last' = [NoRequest EXCEPT !.op = "await"]
                /\ inflight' = Suspend(r, [inflight[r] EXCEPT
                                             !.pc = "invalidate",
                                             !.outcome = "ok",
                                             !.keys = {ProfileKey(u)}])
    /\ UNCHANGED <<settings, interests, blocks, cache, now, redis, views>>

\* ------------------------------------------------------- specifications
Next ==
    \/ Tick
    \/ RedisFail
    \/ RedisRecover
    \/ \E flag \in BOOLEAN : Configure(flag)
    \/ \E k \in DOMAIN cache : CacheExpire(k)
    \/ \E a, b \in RowUsers : CreateBlock(a, b)
    \/ \E a, b \in RowUsers : RemoveBlock(a, b)
    \/ \E u, v \in UserIds : GetUserProfile(u, v)
    \/ \E u, v \in UserIds, ghost, fails \in BOOLEAN : GetPublicProfile(u, v, ghost, fails)
    \/ \E u \in UserIds : GetSettings(u)
    \/ \E u \in UserIds : GetInterests(u)
    \/ \E u \in UserIds : DeleteAccount(u)
    \/ \E u \in UserIds, n \in Names : UpdateUsername(u, n)
    \/ \E u \in UserIds, r \in Reasons, e \in ExpiryInputs : BanUser(u, r, e)
    \/ \E u \in UserIds : UnbanUser(u)
    \/ \E u \in UserIds, d \in Decisions : ModeratePhoto(u, d)
    \/ \E u \in UserIds, img \in Images : SetMainPhoto(u, img)
    \/ \E u \in UserIds, img \in ExtraImages : AddProfilePhoto(u, img)
    \/ \E u \in UserIds, img \in ExtraImages : RemoveProfilePhoto(u, img)
    \/ \E u \in UserIds : GetVerificationMetrics(u)
    \/ \E u \in UserIds : IncrementVerification(u)
    \/ \E u \in UserIds : IncrementNoShow(u)
    \/ \E u \in UserIds, dc \in CreatedDeltas, da \in AttendedDeltas :
           UpdateActivityCounters(u, dc, da)
    \/ \E u \in UserIds, b \in SetBatches : SetInterests(u, b)
    \/ \E u \in UserIds, t \in AddTags, w \in Weights : AddInterest(u, t, w)
    \/ \E u \in UserIds, t \in RemoveTags : RemoveInterest(u, t)
    \/ \E u \in UserIds, body \in Bodies : UpdateMyProfile(u, body)
    \/ \E u \in UserIds : UpdateLastSeen(u)
    \/ \E u \in UserIds : UpdateSubscription(u, "premium")
    \/ \E u \in UserIds, flag \in BOOLEAN : SetCaptainStatus(u, flag)
    \/ \E u \in UserIds, ghost \in BOOLEAN : UpdateSettings(u, ghost)
    \/ \E r \in RequestIds, u \in UserIds : BeginRead(r, u)
    \/ \E r \in RequestIds : FetchRow(r)
    \/ \E r \in RequestIds : FillCache(r)
    \/ \E r \in RequestIds, u \in UserIds, img \in Images : CommitMainPhoto(r, u, img)
    \/ \E r \in RequestIds, u \in UserIds, reason \in Reasons : CommitBan(r, u, reason)
    \/ \E r \in RequestIds, u \in UserIds, n \in Names : CheckUsername(r, u, n)
    \/ \E r \in RequestIds : CommitUsername(r)
    \/ \E r \in RequestIds : Invalidate(r)

Spec == Init /\ [][Next]_vars

\* block rows and profile reads
NextVisibility ==
    \/ \E k \in DOMAIN cache : CacheExpire(k)
    \/ \E a, b \in RowUsers : CreateBlock(a, b)
    \/ \E a, b \in RowUsers : RemoveBlock(a, b)
    \/ \E u, v \in UserIds : GetUserProfile(u, v)
    \/ \E u \in UserIds : DeleteAccount(u)
    \/ \E u \in UserIds : UnbanUser(u)

SpecVisibility == Init /\ [][NextVisibility]_vars

\* bans and reads against the clock
NextModeration ==
    \/ Tick
    \/ \E u \in UserIds, v \in RowUsers : GetUserProfile(u, v)
    \/ \E u \in RowUsers : GetSettings(u)
    \/ \E u \in RowUsers : GetInterests(u)
    \/ \E u \in UserIds, r \in Reasons, e \in ExpiryInputs : BanUser(u, r, e)
    \/ \E u \in UserIds : UnbanUser(u)

SpecModeration == Init /\ [][NextModeration]_vars

\* the account lifecycle: ban, unban, soft deletion, username change, reads
NextLifecycle ==
    \/ \E u, v \in UserIds : GetUserProfile(u, v)
    \/ \E u \in UserIds : DeleteAccount(u)
    \/ \E u \in UserIds, n \in Names : UpdateUsername(u, n)
    \/ \E u \in UserIds, e \in {NoTime, MaxTime + 1} : BanUser(u, "spam", e)
    \/ \E u \in UserIds : UnbanUser(u)

SpecLifecycle == Init /\ [][NextLifecycle]_vars

\* usernames: changes, soft deletion, and the cached profile
NextUsername ==
    \/ \E u \in UserIds : GetUserProfile(u, u)
    \/ \E u \in UserIds : DeleteAccount(u)
    \/ \E u \in UserIds, n \in Names : UpdateUsername(u, n)

SpecUsername == Init /\ [][NextUsername]_vars

\* the main photo and its moderation status
NextPhoto ==
    \/ Tick
    \/ \E u, v \in UserIds : GetUserProfile(u, v)
    \/ \E u \in RowUsers : GetInterests(u)
    \/ \E u \in UserIds, d \in Decisions : ModeratePhoto(u, d)
    \/ \E u \in UserIds, img \in Images : SetMainPhoto(u, img)

SpecPhoto == Init /\ [][NextPhoto]_vars

\* interest tags: bulk set, add and remove, and the cached interest list
NextInterests ==
    \/ \E u \in InterestUsers : GetUserProfile(u, u)
    \/ \E u \in InterestUsers : GetInterests(u)
    \/ \E u \in InterestUsers, b \in SetBatches : SetInterests(u, b)
    \/ \E u \in InterestUsers, t \in AddTags, w \in Weights : AddInterest(u, t, w)
    \/ \E u \in InterestUsers, t \in RemoveTags : RemoveInterest(u, t)

SpecInterests == Init /\ [][NextInterests]_vars

\* the first k images as the extra photos of user u
FirstPhotos(u, k) == [i \in 1 .. k |-> ConstructPhotoUrl(u, ImgSeq[i])]

\* the state of Init with extra photos already stored for u1
InitExtraPhotos ==
    /\ \E k \in StartPhotos :
           users = [u \in RowUsers |->
                      IF u = "u1"
                      THEN [InitUser("ann", "a@x") EXCEPT
                               !.profile_photos_extra = FirstPhotos(u, k)]
                      ELSE InitUser("bob", "b@x")]
    /\ settings = [u \in RowUsers |-> [ghost_mode |-> FALSE]]
    /\ interests = [u \in RowUsers |-> << >>]
    /\ blocks = {}
    /\ cache = << >>
    /\ redis = [enabled |-> TRUE, up |-> TRUE]
    /\ now = 0
    /\ views = << >>
    /\ inflight = << >>
    /\ last = NoRequest

\* the extra-photo array and the cached profile
NextExtraPhotos ==
    \/ \E u \in PhotoUsers : GetUserProfile(u, u)
    \/ \E u \in PhotoUsers, img \in ExtraImages : AddProfilePhoto(u, img)
    \/ \E u \in PhotoUsers, img \in ExtraImages : RemoveProfilePhoto(u, img)

SpecExtraPhotos == InitExtraPhotos /\ [][NextExtraPhotos]_vars

\* verification counters, the trust score and bans
NextTrust ==
    \/ \E u \in TrustUsers : GetVerificationMetrics(u)
    \/ \E u \in TrustUsers : IncrementVerification(u)
    \/ \E u \in TrustUsers : IncrementNoShow(u)
    \/ \E u \in TrustUsers, dc \in CreatedDeltas, da \in AttendedDeltas :
           UpdateActivityCounters(u, dc, da)
    \/ BanUser("u1", "spam", MaxTime + 1)
    \/ UnbanUser("u1")

SpecTrust == Init /\ [][NextTrust]_vars

\* the cache disabled, the Redis server failing, reads and mutations
CacheUsers == {"u1", "u3"}

NextCache ==
    \/ RedisFail
    \/ RedisRecover
    \/ \E flag \in BOOLEAN : Configure(flag)
    \/ \E k \in DOMAIN cache : CacheExpire(k)
    \/ \E u \in CacheUsers, v \in RowUsers : GetUserProfile(u, v)
    \/ \E u \in CacheUsers : GetSettings(u)
    \/ \E u \in CacheUsers : GetInterests(u)
    \/ \E u \in CacheUsers : AddInterest(u, "t01", 10)
    \/ \E u \in CacheUsers : RemoveInterest(u, "t01")
    \/ \E u \in CacheUsers : SetMainPhoto(u, "i1")
    \/ \E u \in CacheUsers : UnbanUser(u)

SpecCache == Init /\ [][NextCache]_vars

\* every transition with its cache invalidation, for a stored user and for
\* an id without a row
TransitionUsers == {"u1", "u3"}

NextTransitions ==
    \/ \E u \in TransitionUsers : GetUserProfile(u, u)
    \/ \E u \in TransitionUsers : GetInterests(u)
    \/ \E u \in TransitionUsers : BanUser(u, "spam", NoTime)
    \/ \E u \in TransitionUsers : UnbanUser(u)
    \/ \E u \in TransitionUsers : ModeratePhoto(u, "approved")
    \/ \E u \in TransitionUsers : SetMainPhoto(u, "i1")
    \/ \E u \in TransitionUsers : AddProfilePhoto(u, "i1")
    \/ \E u \in TransitionUsers : RemoveProfilePhoto(u, "i1")
    \/ \E u \in TransitionUsers : IncrementNoShow(u)
    \/ \E u \in TransitionUsers : UpdateActivityCounters(u, 1, 0)

SpecTransitions == Init /\ [][NextTransitions]_vars

\* public and own profile reads, block rows and the view records
NextViews ==
    \/ \E k \in DOMAIN cache : CacheExpire(k)
    \/ \E a, b \in RowUsers : CreateBlock(a, b)
    \/ \E a, b \in RowUsers : RemoveBlock(a, b)
    \/ \E u, v \in UserIds : GetUserProfile(u, v)
    \/ \E u, v \in UserIds, ghost, fails \in BOOLEAN : GetPublicProfile(u, v, ghost, fails)

SpecViews == Init /\ [][NextViews]_vars

\* concurrent requests on one user: own-profile reads and mutations,
\* interleaved at their awaits
NextRace ==
    \/ \E r \in RequestIds : BeginRead(r, "u1")
    \/ \E r \in RequestIds : FetchRow(r)
    \/ \E r \in RequestIds : FillCache(r)
    \/ \E r \in RequestIds, img \in Images : CommitMainPhoto(r, "u1", img)
    \/ \E r \in RequestIds : CommitBan(r, "u1", "spam")
    \/ \E r \in RequestIds : Invalidate(r)

SpecRace == Init /\ [][NextRace]_vars

\* mutations in two steps, commit and invalidation, with a Redis server
\* that fails and recovers in between
NextCommit ==
    \/ RedisFail
    \/ RedisRecover
    \/ \E r \in {"r1", "r2"}, u \in TransitionUsers : BeginRead(r, u)
    \/ \E r \in {"r1", "r2"} : FetchRow(r)
    \/ \E r \in {"r1", "r2"} : FillCache(r)
    \/ \E r \in {"r1", "r2"}, u \in TransitionUsers : CommitMainPhoto(r, u, "i1")
    \/ \E r \in {"r1", "r2"}, u \in TransitionUsers : CommitBan(r, u, "spam")
    \/ \E r \in {"r1", "r2"} : Invalidate(r)

SpecCommit == Init /\ [][NextCommit]_vars

\* profile updates with valid and invalid dates of birth, and the cached
\* profile
ProfileUsers == {"u1", "u3"}

NextProfile ==
    \/ Tick
    \/ \E u \in ProfileUsers : GetUserProfile(u, u)
    \/ \E u \in ProfileUsers, body \in Bodies : UpdateMyProfile(u, body)

SpecProfile == Init /\ [][NextProfile]_vars

\* requests one at a time with a working cache: own-profile reads and the
\* operations that change a field of the profile snapshot
CoherenceUsers == {"u1", "u3"}

NextCoherence ==
    \/ \E u \in CoherenceUsers : GetUserProfile(u, u)
    \/ \E u \in CoherenceUsers : UpdateLastSeen(u)
    \/ \E u \in CoherenceUsers : UpdateSubscription(u, "premium")
    \/ \E u \in CoherenceUsers : SetCaptainStatus(u, TRUE)
    \/ \E u \in CoherenceUsers, ghost \in BOOLEAN : UpdateSettings(u, ghost)
    \/ \E u \in CoherenceUsers :
           UpdateMyProfile(u, [first_name |-> "Jo", last_name |-> "Doe",
                               profile_description |-> "hi", gender |-> "f",
                               date_of_birth |-> [year |-> 2, md |-> 1]])
    \/ \E u \in CoherenceUsers : UpdateUsername(u, "cat")
    \/ \E u \in CoherenceUsers : SetMainPhoto(u, "i1")
    \/ \E u \in CoherenceUsers : ModeratePhoto(u, "approved")
    \/ \E u \in CoherenceUsers : AddProfilePhoto(u, "i1")
    \/ \E u \in CoherenceUsers : UpdateActivityCounters(u, 1, 0)
    \/ \E u \in CoherenceUsers : AddInterest(u, "t01", 10)

SpecCoherence == Init /\ [][NextCoherence]_vars

\* concurrent username changes by different users
NextRename ==
    \/ \E r \in {"r1", "r2"}, u \in RowUsers, n \in Names : CheckUsername(r, u, n)
    \/ \E r \in {"r1", "r2"} : CommitUsername(r)
    \/ \E r \in {"r1", "r2"} : Invalidate(r)

SpecRename == Init /\ [][NextRename]_vars

\* settings reads and updates with a working cache
NextSettings ==
    \/ \E k \in DOMAIN cache : CacheExpire(k)
    \/ \E u \in UserIds : GetSettings(u)
    \/ \E u \in UserIds, ghost \in BOOLEAN : UpdateSettings(u, ghost)
    \/ \E u \in UserIds : GetUserProfile(u, u)
    \/ \E u \in UserIds : GetInterests(u)

SpecSettings == Init /\ [][NextSettings]_vars

\* ================================================================ claims

ShownStatus(p) == IF "status" \in DOMAIN p THEN p.status ELSE "absent"

\* C2: after a ban of u with a future expiry the profile, settings and
\* interests cache entries of u are gone, and the profile read that follows
\* it is served from the row store and shows status = temporary_ban.
C2_ReadAfterBanShowsBan ==
    [][ (/\ last.op = "ban_user" /\ last.outcome = "ok" /\ last.n # NoTime
         /\ last'.op = "get_user_profile" /\ last'.user = last.user
         /\ last'.outcome = "ok")
        => (/\ {ProfileKey(last.user), SettingsKey(last.user),
                InterestsKey(last.user)} \cap DOMAIN cache = {}
            /\ last'.source = "row"
            /\ \A p \in last'.profile : ShownStatus(p) = "temporary_ban") ]_vars

\* C3: a user with status temporary_ban has ban_expires_at set, and a user
\* with status banned has no ban_expires_at.
C3_BanExpiryMatchesStatus ==
    \A u \in DOMAIN users :
        /\ users[u].status = "temporary_ban" => users[u].ban_expires_at # NoTime
        /\ users[u].status = "banned" => users[u].ban_expires_at = NoTime

\* C4: a ban whose expiry is in the past or equal to now is rejected with a
\* validation error and changes no user row and no cache entry.
C4_PastExpiryRejected ==
    [][ (last'.op = "ban_user" /\ last'.n # NoTime /\ last'.n <= now)
        => (/\ last'.outcome = "ValidationFailed"
            /\ users' = users
            /\ cache' = cache) ]_vars

\* a ban expiring exactly now was rejected for a temporarily banned user
\* whose profile is cached
C4_Witness ==
    /\ last.op = "ban_user"
    /\ last.n = now
    /\ last.outcome = "ValidationFailed"
    /\ last.user \in DOMAIN users
    /\ users[last.user].status = "temporary_ban"
    /\ users[last.user].ban_reason # last.s
    /\ ProfileKey(last.user) \in DOMAIN cache

\* C5: a ban of a stored user with a future expiry or none is carried out
\* from every status; it ends in temporary_ban with ban_expires_at equal to
\* the expiry given, or in banned without ban_expires_at when none was
\* given, and ban_reason is the new reason.
C5_BanTransition ==
    (last.op = "ban_user" /\ last.user \in DOMAIN users
        /\ (last.n = NoTime \/ last.n > now)) =>
        LET row == users[last.user]
        IN  /\ last.outcome = "ok"
            /\ row.ban_reason = last.s
            /\ IF last.n # NoTime
               THEN row.status = "temporary_ban" /\ row.ban_expires_at = last.n
               ELSE row.status = "banned" /\ row.ban_expires_at = NoTime

\* a permanent ban was applied to a temporarily banned user
C5_Witness ==
    /\ last.op = "ban_user"
    /\ last.outcome = "ok"
    /\ last.prior = "temporary_ban"
    /\ last.n = NoTime
    /\ users[last.user].status = "banned"

\* C6: unban of a stored user found in temporary_ban or banned ends in
\* status active with ban_expires_at and ban_reason cleared, and none of the
\* user's profile, settings and interests cache entries is left.
C6_UnbanTransition ==
    (last.op = "unban_user" /\ last.prior \in {"temporary_ban", "banned"}) =>
        LET row == users[last.user]
        IN  /\ last.outcome = "ok"
            /\ row.status = "active"
            /\ row.ban_expires_at = NoTime
            /\ row.ban_reason = NoStr
            /\ {ProfileKey(last.user), SettingsKey(last.user),
                InterestsKey(last.user)} \cap DOMAIN cache = {}

\* a temporarily banned user was unbanned
C6_Witness ==
    /\ last.op = "unban_user"
    /\ last.prior = "temporary_ban"
    /\ last.outcome = "ok"
    /\ users[last.user].status = "active"

\* the cache entries of user u other than the profile entry
OtherKeys(u) == {SettingsKey(u), InterestsKey(u)}

\* C7: setMainPhoto on a stored user succeeds whatever the moderation status
\* was, leaves main_photo_moderation_status = pending and main_photo_url =
\* the new URL, removes the user's profile cache entry and leaves the user's
\* settings and interests cache entries as they were.
C7_SetMainPhoto ==
    [][ (last'.op = "set_main_photo" /\ last'.user \in DOMAIN users)
        => LET u == last'.user
           IN  /\ last'.outcome = "ok"
               /\ users'[u].main_photo_moderation_status = "pending"
               /\ users'[u].main_photo_url = ConstructPhotoUrl(u, last'.s)
               /\ ProfileKey(u) \notin DOMAIN cache'
               /\ \A k \in OtherKeys(u) :
                      /\ k \in DOMAIN cache' <=> k \in DOMAIN cache
                      /\ k \in DOMAIN cache => cache'[k] = cache[k] ]_vars

\* a new main photo was set over an approved one while the user's interests
\* were cached
C7_Witness ==
    /\ last.op = "set_main_photo"
    /\ last.outcome = "ok"
    /\ last.prior = "approved"
    /\ users[last.user].main_photo_moderation_status = "pending"
    /\ InterestsKey(last.user) \in DOMAIN cache

\* a user row without its updated_at timestamp
Fields(row) == [f \in DOMAIN row \ {"updated_at"} |-> row[f]]

\* C8: moderatePhoto with decision approved or rejected succeeds on a stored
\* user from every moderation status and leaves the status equal to the
\* decision; a second moderatePhoto(u, approved) right after a first one
\* succeeds too and leaves every row (but for the updated_at timestamp) and
\* the cache as the first call left them.
C8_ModerateIdempotent ==
    [][ /\ (last'.op = "moderate_photo" /\ last'.user \in DOMAIN users
                /\ last'.s \in {"approved", "rejected"})
           => (/\ last'.outcome = "ok"
               /\ users'[last'.user].main_photo_moderation_status = last'.s)
        /\ (/\ last.op = "moderate_photo" /\ last.outcome = "ok" /\ last.s = "approved"
            /\ last'.op = "moderate_photo" /\ last'.user = last.user
            /\ last'.s = "approved")
           => (/\ last'.outcome = "ok"
               /\ \A x \in DOMAIN users : Fields(users'[x]) = Fields(users[x])
               /\ settings' = settings /\ interests' = interests
               /\ blocks' = blocks /\ cache' = cache) ]_vars

\* an approved photo was approved a second time
C8_Witness ==
    /\ last.op = "moderate_photo"
    /\ last.s = "approved"
    /\ last.prior = "approved"
    /\ last.outcome = "ok"
    /\ users[last.user].main_photo_moderation_status = "approved"

\* the anonymized state a soft deletion leaves a user in
Anonymized(row) ==
    /\ row.status # "active"
    /\ row.email.del # << >>
    /\ row.username.del # << >>

\* C9: soft deletion is terminal: a user in the anonymized state stays in it
\* whatever operation follows.
C9_DeletionTerminal ==
    [][ \A u \in DOMAIN users : Anonymized(users[u]) => Anonymized(users'[u]) ]_vars

\* C10: after the soft deletion of u, a read of u's own profile reports
\* NotFound, and a username change of another stored user to u's original
\* username succeeds.
C10_DeletedNotFoundNameFree ==
    [][ (last.op = "delete_account" /\ last.outcome = "ok")
        => (/\ (last'.op = "get_user_profile" /\ last'.user = last.user
                    /\ last'.viewer = last.user)
               => last'.outcome = "NotFound"
            /\ (last'.op = "update_username" /\ last'.user \in DOMAIN users
                    /\ last'.user # last.user
                    /\ last'.s = users[last.user].username.orig)
               => last'.outcome = "ok") ]_vars

\* C11: a username change to a name that equals, ignoring case, the username
\* of any user is refused with a duplicate error naming the field username
\* and changes no user row and no cache entry; a change by a stored user to a
\* name no user holds (ignoring case) sets the username and removes the
\* user's profile cache entry.
C11_UsernameUnique ==
    [][ last'.op = "update_username"
        => LET u == last'.user
               n == last'.s
               held == \E x \in DOMAIN users :
                           Lower(users[x].username) = Lower(Ident(n))
           IN  /\ held => (/\ last'.outcome = "Duplicate"
                           /\ last'.detail = "username"
                           /\ users' = users
                           /\ cache' = cache)
               /\ (~held /\ u \in DOMAIN users)
                      => (/\ last'.outcome = "ok"
                          /\ users'[u].username = Ident(n)
                          /\ ProfileKey(u) \notin DOMAIN cache') ]_vars

\* a change to "Ann" was refused because another user is called "ann", and
\* the requester's cached profile is still there
C11_Witness ==
    /\ last.op = "update_username"
    /\ last.s = "Ann"
    /\ last.outcome = "Duplicate"
    /\ last.user \in DOMAIN users
    /\ \E x \in DOMAIN users \ {last.user} : users[x].username = Ident("ann")
    /\ ProfileKey(last.user) \in DOMAIN cache

\* the number of interest tags user u has stored
TagCount(u) == Cardinality(DOMAIN InterestRows(u))

\* C12: when a user has 20 interest tags, adding a tag the user does not
\* have is rejected with a limit error (resource interests, limit 20) and the
\* user's 20 tags and their weights are unchanged; after any sequence of set,
\* add and remove no user has more than 20 tags.
C12_InterestLimit ==
    [][ /\ (/\ last'.op = "add_interest"
            /\ TagCount(last'.user) = 20
            /\ last'.s \notin DOMAIN InterestRows(last'.user))
           => (/\ last'.outcome = "LimitExceeded"
               /\ last'.detail = "interests"
               /\ last'.limit = 20
               /\ interests' = interests)
        /\ \A u \in DOMAIN interests' : Cardinality(DOMAIN interests'[u]) <= 20 ]_vars

\* the tag "t21" was refused for a user who has the tags t01 .. t20
C12_Witness ==
    /\ last.op = "add_interest"
    /\ last.s = "t21"
    /\ last.outcome = "LimitExceeded"
    /\ last.user \in DOMAIN interests
    /\ DOMAIN interests[last.user] = {TagSeq[i] : i \in 1 .. 20}

\* C13: adding a tag that a stored user already has, compared ignoring case,
\* succeeds (also at 20 tags), sets the weight of the existing entry and
\* inserts none: the tag count is unchanged and no two tags of the user are
\* equal ignoring case.
C13_AddExistingUpdatesWeight ==
    [][ (/\ last'.op = "add_interest"
         /\ last'.user \in DOMAIN users
         /\ \E t \in DOMAIN InterestRows(last'.user) : LowerTag(t) = LowerTag(last'.s))
        => LET u == last'.user
               old == CHOOSE t \in DOMAIN interests[u] : LowerTag(t) = LowerTag(last'.s)
           IN  /\ last'.outcome = "ok"
               /\ DOMAIN interests'[u] = DOMAIN interests[u]
               /\ interests'[u][old] = last'.n
               /\ \A a, b \in DOMAIN interests'[u] :
                      LowerTag(a) = LowerTag(b) => a = b ]_vars

\* the tags a request body holds more than once, ignoring case
CaseDuplicates(b) ==
    {i \in DOMAIN b : \E j \in DOMAIN b : j # i /\ LowerTag(b[j].tag) = LowerTag(b[i].tag)}

\* C14: a bulk set whose body has more than 20 entries or two tags equal
\* ignoring case is rejected as a whole, the stored interests and the cache
\* stay as they were; an accepted body of a stored user replaces the user's
\* stored interests with exactly the tags and weights of the body.
C14_SetInterests ==
    [][ last'.op = "set_interests"
        => LET u == last'.user
               b == last'.batch
           IN  IF Len(b) > 20 \/ CaseDuplicates(b) # {}
               THEN /\ last'.outcome # "ok"
                    /\ interests' = interests
                    /\ cache' = cache
               ELSE u \in DOMAIN users
                    => (/\ last'.outcome = "ok"
                        /\ DOMAIN interests'[u] = {b[i].tag : i \in DOMAIN b}
                        /\ \A i \in DOMAIN b : interests'[u][b[i].tag] = b[i].weight
                        /\ \A x \in DOMAIN interests \ {u} :
                               interests'[x] = interests[x]) ]_vars

\* a body with "t01" and "T01" was rejected and the user's cached interest
\* list is still there
C14_Witness ==
    /\ last.op = "set_interests"
    /\ Len(last.batch) = 2
    /\ last.batch[1].tag = "t01" /\ last.batch[2].tag = "T01"
    /\ last.outcome = "ValidationFailed"
    /\ last.user \in DOMAIN users
    /\ DOMAIN interests[last.user] # {}
    /\ InterestsKey(last.user) \in DOMAIN cache

\* C15: after any sequence of extra-photo add and remove operations every
\* user's extra-photo array has at most 8 entries and no URL twice; adding a
\* photo to an array of 8 entries is rejected with a limit error (resource
\* photos, limit 8) and the array still holds the same 8 entries.
C15_ExtraPhotosBounded ==
    [][ /\ (/\ last'.op = "add_profile_photo"
            /\ last'.user \in DOMAIN users
            /\ Len(users[last'.user].profile_photos_extra) = 8)
           => (/\ last'.outcome = "LimitExceeded"
               /\ last'.detail = "photos"
               /\ last'.limit = 8
               /\ users'[last'.user].profile_photos_extra
                      = users[last'.user].profile_photos_extra)
        /\ \A u \in DOMAIN users' :
               LET photos == users'[u].profile_photos_extra
               IN  /\ Len(photos) <= 8
                   /\ \A i, j \in DOMAIN photos : photos[i] = photos[j] => i = j ]_vars

\* a ninth photo was refused for a user who has eight
C15_Witness ==
    /\ last.op = "add_profile_photo"
    /\ last.s = "i9"
    /\ last.outcome = "LimitExceeded"
    /\ last.user \in DOMAIN users
    /\ Len(users[last.user].profile_photos_extra) = 8

\* C16: adding an extra photo whose URL is already in the user's array of
\* fewer than 8 entries leaves the array unchanged and is reported as a
\* Duplicate error; adding to an array of 8 entries is reported as a
\* LimitExceeded error.
C16_AddPhotoErrors ==
    [][ (last'.op = "add_profile_photo" /\ last'.user \in DOMAIN users)
        => LET u == last'.user
               photos == users[u].profile_photos_extra
               url == ConstructPhotoUrl(u, last'.s)
           IN  /\ (Len(photos) < 8 /\ \E i \in DOMAIN photos : photos[i] = url)
                      => (/\ last'.outcome = "Duplicate"
                          /\ users'[u].profile_photos_extra = photos)
               /\ Len(photos) >= 8 => last'.outcome = "LimitExceeded" ]_vars

\* clamp(lo, hi, x)
Clamp(lo, hi, x) == IF x < lo THEN lo ELSE IF x > hi THEN hi ELSE x

EnvironmentOps == {"none", "tick", "expire", "redis_fail", "redis_recover", "configure",
                   "create_block", "remove_block"}

\* C19: while the cache backend fails, no cache operation raises to its
\* caller: a get is a miss, a set and an invalidation change nothing, and
\* every service request completes with the result it has with an empty
\* cache (a read is answered from the row store).
C19_BackendFailureIsSilent ==
    [][ (~redis.up /\ last'.op \notin EnvironmentOps)
        => /\ last'.outcome # "AttributeError"
           /\ last'.source # "cache"
           /\ cache' = cache
           /\ last'.op = "get_user_profile"
                  => last'.profile = GetByUserId(last'.user, last'.viewer) ]_vars

\* C20: while the cache is disabled by configuration, every cache operation
\* leaves the cache store untouched and raises nothing: a get is a miss, a
\* set and an invalidation return without error, and every read is served
\* from the row store.
C20_DisabledCacheIsNoOp ==
    [][ (~redis.enabled /\ last'.op \notin EnvironmentOps)
        => /\ cache' = cache
           /\ last'.outcome # "AttributeError"
           /\ last'.op = "get_user_profile"
                  => (/\ last'.source # "cache"
                      /\ last'.profile = GetByUserId(last'.user, last'.viewer))
           /\ last'.op = "get_interests" => last'.source = "row"
           /\ last'.op = "get_settings"
                  => (/\ last'.source # "cache"
                      /\ last'.outcome = IF SettingsDump(last'.user) # {}
                                         THEN "ok" ELSE "NotFound") ]_vars

\* ban, unban, moderatePhoto, setMainPhoto, extra-photo add and remove, and
\* the counter increments
TransitionOps ==
    {"ban_user", "unban_user", "moderate_photo", "set_main_photo",
     "add_profile_photo", "remove_profile_photo", "increment_verification",
     "increment_no_show", "update_activity_counters"}

\* the request finds no row to change: the user has no row, or the photo to
\* remove is not in the user's array
NothingToChange(req) ==
    \/ req.user \notin DOMAIN users
    \/ /\ req.op = "remove_profile_photo"
       /\ \A i \in DOMAIN users[req.user].profile_photos_extra :
              users[req.user].profile_photos_extra[i] # ConstructPhotoUrl(req.user, req.s)

\* C21: a transition (ban, unban, moderatePhoto, setMainPhoto, extra-photo
\* add and remove, counter increments) that finds no row to change (no user
\* row, or the photo to remove is not in the array) changes no row and
\* invalidates no cache entry; one that changes the user's row leaves no
\* profile cache entry of that user.
C21_TransitionAllOrNothing ==
    [][ last'.op \in TransitionOps
        => /\ NothingToChange(last') => (users' = users /\ cache' = cache)
           /\ users' # users => ProfileKey(last'.user) \notin DOMAIN cache' ]_vars

C23_ProfileViewRecorded ==
    [][ last'.op = "get_public_profile"
        => LET s == last'.user
               v == last'.viewer
               failed == last'.detail = "profile_view_record_failed"
           IN  /\ IF /\ last'.outcome = "ok"
                     /\ s # v
                     /\ ~last'.ghost
                     /\ ~failed
                  THEN views' = Append(views, <<v, s>>)
                  ELSE views' = views
               /\ failed => (last'.outcome = "ok" /\ last'.profile # {})
               /\ s # v => (last'.outcome = "ok"
                            <=> (/\ s \in DOMAIN users
                                 /\ <<s, v>> \notin blocks
                                 /\ <<v, s>> \notin blocks)) ]_vars

\* a public read by another user with ghost mode off has just written its
\* view row
C23_Witness ==
    /\ last.op = "get_public_profile"
    /\ last.outcome = "ok"
    /\ last.user # last.viewer
    /\ ~last.ghost
    /\ views # << >>
    /\ views[Len(views)] = <<last.viewer, last.user>>

\* C24: a mutation commits its row before it attempts the invalidation: the
\* step that commits leaves the cache alone, and the invalidation comes in a
\* later step of a request whose row is already committed.  The invalidation
\* step changes no row, and the request returns what the row store answered,
\* with the Redis server failing as with it working; a failing invalidation
\* leaves the cache as it was.
C24_CommitBeforeInvalidate ==
    [][ /\ \A r \in DOMAIN inflight' \ DOMAIN inflight :
               inflight'[r].pc = "invalidate"
               => /\ cache' = cache
                  /\ inflight'[r].outcome =
                         IF inflight'[r].user \in DOMAIN users THEN "ok" ELSE "false"
                  /\ inflight'[r].op = "ban_user" /\ inflight'[r].user \in DOMAIN users
                     => users'[inflight'[r].user].status = "banned"
                  /\ inflight'[r].op = "set_main_photo"
                     => users'[inflight'[r].user].main_photo_moderation_status = "pending"
        /\ \A r \in DOMAIN inflight \ DOMAIN inflight' :
               inflight[r].pc = "invalidate"
               => /\ users' = users
                  /\ last'.op = inflight[r].op
                  /\ last'.outcome = inflight[r].outcome
                  /\ ~redis.up => cache' = cache
                  /\ redis.up => \A k \in inflight[r].keys : k \notin DOMAIN cache' ]_vars

\* a ban has returned ok while the Redis server was failing: the row is
\* banned and the profile cached before the ban is still in the cache
C24_Witness ==
    /\ last.op = "ban_user"
    /\ last.outcome = "ok"
    /\ ~redis.up
    /\ users[last.user].status = "banned"
    /\ ProfileKey(last.user) \in DOMAIN cache

\* C25: with own-profile reads (miss, fetch, fill) and mutations (commit,
\* invalidate) of one user interleaved at their awaits, once no request is
\* in flight a profile cache entry of a stored user u that is present
\* equals the snapshot of u's committed row.
C25_CacheConverges ==
    DOMAIN inflight = {}
    => \A u \in DOMAIN users :
           ProfileKey(u) \in DOMAIN cache
           => JsonLoads(cache[ProfileKey(u)]) = Snapshot(u)

\* the 18th birthday of the date d is after the day today, or d is today or
\* later
InvalidDateOfBirth(d, today) ==
    \/ d.year + 18 > today.year
    \/ d.year + 18 = today.year /\ d.md > today.md

\* C26: a profile update whose date of birth is invalid (age under 18, or
\* not in the past) and that carries other fields is rejected before any
\* mutation: no attribute of the user is assigned, the stored row keeps its
\* first_name, last_name, profile_description, gender and date_of_birth, and
\* the cache is left as it is.
C26_InvalidBirthDateRejected ==
    [][ (/\ last'.op = "update_profile"
         /\ last'.body.date_of_birth # NoDate
         /\ InvalidDateOfBirth(last'.body.date_of_birth, [year |-> 20, md |-> 1 + now]))
        => /\ last'.outcome # "ok"
           /\ last'.dirty = {}
           /\ users' = users
           /\ cache' = cache ]_vars

\* an update with a name and the date of birth of a 17-year-old for a stored
\* user whose profile is cached has just been refused
C26_Witness ==
    /\ last.op = "update_profile"
    /\ last.user \in DOMAIN users
    /\ last.body.first_name # NoStr
    /\ last.body.date_of_birth = [year |-> 2, md |-> 3]
    /\ last.outcome = "ValidationFailed"
    /\ ProfileKey(last.user) \in DOMAIN cache

\* C27: with requests one at a time and a working cache, a profile cache
\* entry of a stored user u that is present equals the snapshot of u's
\* stored row, settings and interests.
C27_CacheCoherent ==
    \A u \in DOMAIN users :
        ProfileKey(u) \in DOMAIN cache
        => JsonLoads(cache[ProfileKey(u)]) = Snapshot(u)

\* C28: under every interleaving of username changes by different users
\* (uniqueness query, then write and commit), no two users hold usernames
\* that are equal ignoring case.
C28_ConcurrentUsernamesUnique ==
    \A a, b \in DOMAIN users :
        a # b => Lower(users[a].username) # Lower(users[b].username)

\* C29: a settings read for a user whose settings row exists and whose
\* settings are not in the cache succeeds, and leaves the stored settings in
\* the settings cache, so that the next read is a cache hit with that value.
C29_SettingsReadFillsCache ==
    [][ (/\ last'.op = "get_settings"
         /\ last'.user \in DOMAIN settings
         /\ SettingsKey(last'.user) \notin DOMAIN cache)
        => /\ last'.outcome = "ok"
           /\ SettingsKey(last'.user) \in DOMAIN cache'
           /\ JsonLoads(cache'[SettingsKey(last'.user)]) = settings[last'.user] ]_vars

\* C30: increment_verification, increment_no_show and
\* update_activity_counters for a user id without a user row report
\* NotFound, never success with a count of 0, and change no row and no cache
\* entry.
C30_CountersOfMissingUser ==
    [][ (/\ last'.op \in {"increment_verification", "increment_no_show",
                          "update_activity_counters"}
         /\ last'.user \notin DOMAIN users)
        => /\ last'.outcome = "NotFound"
           /\ ~(last'.outcome = "ok" /\ last'.n = 0)
           /\ users' = users
           /\ cache' = cache ]_vars

====
